---- MODULE Spec2Model ----
(***************************************************************************)
(* Clinic API: the availability / slot engine (app/routers/availability.py)*)
(* the appointment handlers (app/routers/appointments.py) and the user     *)
(* administration (app/routers/admin.py), over the tables of               *)
(* app/models.py.                                                          *)
(*                                                                         *)
(* Times of day are seconds since midnight (0 .. 86399), dates are day     *)
(* ordinals whose ordinal 0 is a Monday, and a datetime is                 *)
(* date * 86400 + time of day.  All datetimes are read in one time zone.   *)
(*                                                                         *)
(* Every handler runs in its own session (database.py: autocommit=False,   *)
(* autoflush=False, the engine's default isolation READ COMMITTED): a      *)
(* handler is one action per database statement that other sessions can    *)
(* observe, and the rows it adds become visible at its commit.             *)
(***************************************************************************)
EXTENDS Integers, Sequences, FiniteSets, TLC

VARIABLES
    users,                \* table users: id -> role_id, is_active
    doctor_availability,  \* table doctor_availability, in heap order
    blocked_time,         \* table blocked_time
    appointments,         \* table appointments: a set of rows with ids
    next_appointment_id,  \* the appointments id sequence
    notifications,        \* table notifications, in insertion order
    pc,                   \* per request worker: where its handler stands
    req,                  \* per request worker: arguments and locals
    resp                  \* per request worker: the response it produced

vars == <<users, doctor_availability, blocked_time, appointments, next_appointment_id,
          notifications, pc, req, resp>>

-----------------------------------------------------------------------------
(* Bounds of the model *)

MaxRules == 1
MaxAppointments == 1
MaxNotifications == 1

-----------------------------------------------------------------------------
(* Program constants *)

SlotMinutes_TwentyFive == 30 - 5
SlotMinutes == 30
StatusPendiente == 1
StatusConfirmada == 2
StatusCompletada == 3
StatusCancelada == 4
TypeAviso == 2
TypeMensaje == 3
RoleAdmin == 1
RoleMedico == 2
RolePaciente == 3

-----------------------------------------------------------------------------
(* datetime arithmetic *)

T(h, m, s) == h * 3600 + m * 60 + s

combine(d, t) == d * 86400 + t

time_of(dt) == dt % 86400

hour(t) == t \div 3600

minute(t) == (t % 3600) \div 60

weekday(d) == d % 7

\* time.strftime("%H:%M"): the hour and the minute, the seconds dropped
strftime_HM(t) == <<hour(t), minute(t)>>

time_min == 0

time_max == T(23, 59, 59)

\* date.max: the calendar of the model is the last week of datetime's, day 0
\* is its Monday and date.max (9999-12-31) is its Friday
date_max == 4

\* datetime + timedelta raises OverflowError past the end of date.max
Overflows(dt) == dt > combine(date_max, time_max)

-----------------------------------------------------------------------------
(* Users, roles and the sessions that serve requests *)

Workers == {1, 2}

Main == CHOOSE p \in Workers : \A q \in Workers : p <= q

Users == {1, 2, 3}

\* table roles
RoleCatalogue == {RoleAdmin, RoleMedico, RolePaciente}

RoleNames == [r \in RoleCatalogue |->
                CASE r = RoleAdmin -> "admin" [] r = RoleMedico -> "medico"
                  [] OTHER -> "paciente"]

\* the users table at the start: a doctor, an administrator and two patients
InitialUsers ==
    [u \in 1..4 |->
        [role_id |-> CASE u = 1 -> RoleMedico [] u = 2 -> RoleAdmin [] OTHER -> RolePaciente,
         is_active |-> TRUE]]

\* current_user.role.name
role_name(u) == RoleNames[users[u].role_id]

\* User.patient_profile: the id of the patient row of u, or 0 for none
patient_profile(u) ==
    IF u \notin DOMAIN users THEN 0
    ELSE CASE u = 3 -> 1 [] u = 4 -> 2 [] OTHER -> 0

\* Patient.user_id of a patient row
patient_user_id(pid) ==
    CASE pid = 1 /\ 3 \in DOMAIN users -> 3
      [] pid = 2 /\ 4 \in DOMAIN users -> 4
      [] OTHER -> 0

StatusCatalogue == {StatusPendiente, StatusConfirmada, StatusCompletada, StatusCancelada}

None == "None"

NoReq == [op |-> "none"]

NoResp == [code |-> 0]

-----------------------------------------------------------------------------
(* Inputs *)

Rule(d, s, e, a) == [day_of_week |-> d, start_time |-> s, end_time |-> e, is_active |-> a]

RuleSet ==
    { Rule(0, T(9, 0, 0), T(11, 0, 0), TRUE),
      Rule(0, T(10, 0, 30), T(10, 45, 0), TRUE),
      Rule(1, T(23, 30, 0), T(23, 59, 59), TRUE),
      Rule(0, T(9, 0, 0), T(11, 0, 0), FALSE),
      Rule(1, T(11, 0, 0), T(9, 0, 0), TRUE) }

SeqsUpTo(S, n) == UNION { [1..k -> S] : k \in 0..n }

\* request bodies of set_availability in the sequential specification
RuleLists == SeqsUpTo(RuleSet, MaxRules)

Dates == {0, 1}

Clock == { <<0, T(9, 30, 0)>>, <<0, T(9, 30, 1)>>, <<1, T(9, 30, 1)>> }

DoctorIds == {1, 2}

\* request bodies of create_appointment: <<doctor_id, appointment_date>>
AppointmentInputs ==
    { <<1, combine(0, T(10, 0, 30))>>,
      <<2, combine(0, T(10, 0, 0))>>,
      <<1, combine(1, T(10, 0, 0))>> }

Reasons == {None, "", "motivo"}

BlockedRows ==
    { [doctor_id |-> 1, start_datetime |-> combine(0, T(9, 30, 0)),
       end_datetime |-> combine(0, T(10, 30, 0))] }

-----------------------------------------------------------------------------
(* The initial state: empty schedule and appointment tables, a vacation in *)
(* blocked_time (no handler writes that table), every worker idle.         *)

Init ==
    /\ users = InitialUsers
    /\ doctor_availability = <<>>
    /\ blocked_time = BlockedRows
    /\ appointments = {}
    /\ next_appointment_id = 1
    /\ notifications = <<>>
    /\ pc = [p \in Workers |-> "idle"]
    /\ req = [p \in Workers |-> NoReq]
    /\ resp = [p \in Workers |-> NoResp]

-----------------------------------------------------------------------------
(* Helpers on sequences *)

RECURSIVE SeqOfRows(_, _)
SeqOfRows(list, doctor) ==
    IF list = <<>> THEN <<>>
    ELSE <<[doctor_id |-> doctor,
            day_of_week |-> Head(list).day_of_week,
            start_time |-> Head(list).start_time,
            end_time |-> Head(list).end_time,
            is_active |-> Head(list).is_active,
            xmax |-> {}]>> \o SeqOfRows(Tail(list), doctor)

\* a row as a response shows it: without the row's transaction bookkeeping
Shown(row) ==
    [doctor_id |-> row.doctor_id, day_of_week |-> row.day_of_week,
     start_time |-> row.start_time, end_time |-> row.end_time,
     is_active |-> row.is_active]

Finish(p, code, body) ==
    /\ pc' = [pc EXCEPT ![p] = "done"]
    /\ resp' = [resp EXCEPT ![p] = [code |-> code, body |-> body]]

-----------------------------------------------------------------------------
(* get_current_medico_or_admin_user *)

is_medico_or_admin_AnyRole(u) == role_name(u) \in {"medico", "admin", "paciente"}

is_medico_or_admin(u) == role_name(u) \in {"medico", "admin"}

-----------------------------------------------------------------------------
(* set_availability *)

\* the dependency raises 403 before the handler body runs
SetAvailabilityForbidden(p, u) ==
    /\ pc[p] = "idle"
    /\ ~is_medico_or_admin(u)
    /\ req' = [req EXCEPT ![p] = [op |-> "set_availability", user |-> u]]
    /\ Finish(p, 403, None)
    /\ UNCHANGED <<users, doctor_availability, blocked_time, appointments,
                   next_appointment_id, notifications>>

DeleteTargets_All(table, u) == 1..Len(table)

\* the rows a DELETE ... WHERE doctor_id = u finds
DeleteTargets(table, u) == { i \in 1..Len(table) : table[i].doctor_id = u }

\* db.query(DoctorAvailability).filter(doctor_id == current_user.id).delete():
\* the statement marks the rows it finds; a row another open transaction has
\* marked makes it wait for that transaction to end.
SetAvailabilityDelete(p, u) ==
    /\ pc[p] = "idle"
    /\ is_medico_or_admin(u)
    /\ LET targets == DeleteTargets(doctor_availability, u)
           holders == { q \in Workers \ {p} :
                          /\ pc[q] = "set_deleted"
                          /\ \E i \in targets : q \in doctor_availability[i].xmax }
       IN /\ doctor_availability' =
                [i \in 1..Len(doctor_availability) |->
                    IF i \in targets
                    THEN [doctor_availability[i] EXCEPT !.xmax = @ \cup {p}]
                    ELSE doctor_availability[i]]
          /\ req' = [req EXCEPT ![p] =
                [op |-> "set_availability", user |-> u, waits |-> holders]]
    /\ pc' = [pc EXCEPT ![p] = "set_deleted"]
    /\ UNCHANGED <<users, blocked_time, appointments, next_appointment_id,
                   notifications, resp>>

RECURSIVE Without(_, _)
Without(table, p) ==
    IF table = <<>> THEN <<>>
    ELSE IF p \in Head(table).xmax THEN Without(Tail(table), p)
    ELSE <<Head(table)>> \o Without(Tail(table), p)

Unmark(table, p) ==
    [i \in 1..Len(table) |-> [table[i] EXCEPT !.xmax = @ \ {p}]]

Released(rq, p) ==
    [q \in Workers |->
        IF q # p /\ pc[q] = "set_deleted"
        THEN [rq[q] EXCEPT !.waits = @ \ {p}]
        ELSE rq[q]]

\* the loop of db.add and db.commit(): the rows this transaction deleted go
\* and the new rows appear, in one step; the response is the new rows
SetAvailabilityCommit(p, availabilities) ==
    /\ pc[p] = "set_deleted"
    /\ req[p].waits = {}
    /\ LET new_schedule == SeqOfRows(availabilities, req[p].user)
       IN /\ doctor_availability' = Without(doctor_availability, p) \o new_schedule
          /\ req' = Released([req EXCEPT ![p] =
                        [op |-> "set_availability", user |-> req[p].user,
                         waits |-> {}, availabilities |-> availabilities]], p)
          /\ Finish(p, 201, [i \in 1..Len(new_schedule) |-> Shown(new_schedule[i])])
    /\ UNCHANGED <<users, blocked_time, appointments, next_appointment_id, notifications>>

\* the statement or the commit fails: get_db closes the session, which rolls
\* the transaction back, and the caller gets a server error
SetAvailabilityFail(p) ==
    /\ pc[p] = "set_deleted"
    /\ doctor_availability' = Unmark(doctor_availability, p)
    /\ req' = Released([req EXCEPT ![p] =
                  [op |-> "set_availability", user |-> req[p].user, waits |-> {}]], p)
    /\ Finish(p, 500, None)
    /\ UNCHANGED <<users, blocked_time, appointments, next_appointment_id, notifications>>

-----------------------------------------------------------------------------
(* get_my_availability *)

GetMyAvailabilityForbidden(p, u) ==
    /\ pc[p] = "idle"
    /\ ~is_medico_or_admin(u)
    /\ req' = [req EXCEPT ![p] = [op |-> "get_my_availability", user |-> u]]
    /\ Finish(p, 403, None)
    /\ UNCHANGED <<users, doctor_availability, blocked_time, appointments,
                   next_appointment_id, notifications>>

OrderedByDay_HeapOrder(table, u) ==
    LET Mine(r) == r.doctor_id = u
        rows == SelectSeq(table, Mine)
    IN { [k \in 1..Len(rows) |-> Shown(rows[k])] }

\* filter(doctor_id == u).order_by(day_of_week).all(): the rows of u in any
\* order that is ascending in day_of_week (rows of one day tie)
OrderedByDay(table, u) ==
    LET idx == { i \in 1..Len(table) : table[i].doctor_id = u }
        n == Cardinality(idx)
    IN { [k \in 1..n |-> Shown(table[f[k]])] :
           f \in { g \in [1..n -> idx] :
                     /\ \A a, b \in 1..n : a # b => g[a] # g[b]
                     /\ \A a, b \in 1..n :
                          a < b => table[g[a]].day_of_week <= table[g[b]].day_of_week } }

GetMyAvailability(p, u) ==
    /\ pc[p] = "idle"
    /\ is_medico_or_admin(u)
    /\ req' = [req EXCEPT ![p] = [op |-> "get_my_availability", user |-> u]]
    /\ \E availability \in OrderedByDay(doctor_availability, u) :
          Finish(p, 200, availability)
    /\ UNCHANGED <<users, doctor_availability, blocked_time, appointments,
                   next_appointment_id, notifications>>

-----------------------------------------------------------------------------
(* get_available_slots *)

ActiveRules_IgnoringIsActive(table, doctor_id, query_date) ==
    { i \in 1..Len(table) :
        /\ table[i].doctor_id = doctor_id
        /\ table[i].day_of_week = weekday(query_date) }

ActiveRules_AnyDay(table, doctor_id, query_date) ==
    { i \in 1..Len(table) :
        /\ table[i].doctor_id = doctor_id
        /\ table[i].is_active = TRUE }

\* A. the rows the base-schedule query matches; .first() takes one of them
\* (the query has no ORDER BY)
ActiveRules(table, doctor_id, query_date) ==
    { i \in 1..Len(table) :
        /\ table[i].doctor_id = doctor_id
        /\ table[i].day_of_week = weekday(query_date)
        /\ table[i].is_active = TRUE }

ExistingAppointments_ConfirmedOnly(apps, doctor_id, query_date) ==
    { a \in apps :
        /\ a.doctor_id = doctor_id
        /\ a.appointment_date >= combine(query_date, 0)
        /\ a.appointment_date <= combine(query_date, T(23, 59, 59))
        /\ a.status_id \in {2} }

ExistingAppointments_AnyStatus(apps, doctor_id, query_date) ==
    { a \in apps :
        /\ a.doctor_id = doctor_id
        /\ a.appointment_date >= combine(query_date, 0)
        /\ a.appointment_date <= combine(query_date, T(23, 59, 59)) }

\* B. the appointments of that day that hold a slot
ExistingAppointments(apps, doctor_id, query_date) ==
    { a \in apps :
        /\ a.doctor_id = doctor_id
        /\ a.appointment_date >= combine(query_date, time_min)
        /\ a.appointment_date <= combine(query_date, time_max)
        /\ a.status_id \in {StatusPendiente, StatusConfirmada} }

BookedTimes(apps, doctor_id, query_date) ==
    { time_of(a.appointment_date) : a \in ExistingAppointments(apps, doctor_id, query_date) }

IsTaken_HourOnly(booked_times, slot_time) ==
    \E booked \in booked_times : hour(booked) = hour(slot_time)

IsTaken_OrBlocked(booked_times, slot_time) ==
    \/ \E booked \in booked_times :
          hour(booked) = hour(slot_time) /\ minute(booked) = minute(slot_time)
    \/ \E b \in blocked_time :
          time_of(b.start_datetime) <= slot_time /\ slot_time < time_of(b.end_datetime)

IsTaken_WithinSlot(booked_times, slot_time) ==
    \E booked \in booked_times :
        slot_time <= booked /\ booked < slot_time + SlotMinutes * 60

IsTaken(booked_times, slot_time) ==
    \E booked \in booked_times :
        hour(booked) = hour(slot_time) /\ minute(booked) = minute(slot_time)

IsPast_Inclusive(query_date, slot_time, today, now) ==
    query_date = today /\ slot_time <= now

IsPast(query_date, slot_time, today, now) ==
    query_date = today /\ slot_time < now

LoopGuard_Inclusive(current_time, end_time) == current_time <= end_time

LoopGuard(current_time, end_time) == current_time < end_time

\* C. the while loop, unrolled.  Pass k (k = 0, 1, ...) starts with
\* current_time = start + k * 30 min.  The loop halts before pass k when the
\* guard fails for that current_time, or when the increment that would have
\* produced it, `current_time += timedelta(minutes=30)` at the end of pass
\* k - 1, raised OverflowError.  Two instants of one date are less than a
\* day apart, which caps k.
LastPass == 86400 \div (SlotMinutes * 60)

HaltsAt(current_time, end_time, k) ==
    \/ k > LastPass
    \/ ~LoopGuard(current_time + k * SlotMinutes * 60, end_time)
    \/ k > 0 /\ Overflows(current_time + k * SlotMinutes * 60)

\* the number of passes the loop makes: the first k at which it halts
Passes(current_time, end_time) ==
    CHOOSE k \in 0..(LastPass + 1) :
        /\ HaltsAt(current_time, end_time, k)
        /\ \A j \in 0..(k - 1) : ~HaltsAt(current_time, end_time, j)

\* the result of the loop: the slots appended, in the order of the passes,
\* or the OverflowError of the increment, with the number of passes
GenerateSlots(current_time, end_time, booked_times, query_date, today, now) ==
    LET iterations == Passes(current_time, end_time)
        slot_times == [i \in 1..iterations |->
                          time_of(current_time + (i - 1) * SlotMinutes * 60)]
        Keep(slot_time) == ~IsTaken(booked_times, slot_time)
                              /\ ~IsPast(query_date, slot_time, today, now)
        kept == SelectSeq(slot_times, Keep)
    IN IF iterations > 0 /\ Overflows(current_time + iterations * SlotMinutes * 60)
       THEN [raised |-> TRUE, slots |-> <<>>, iterations |-> iterations]
       ELSE [raised |-> FALSE,
             slots |-> [i \in 1..Len(kept) |->
                          [time |-> strftime_HM(kept[i]), is_available |-> TRUE]],
             iterations |-> iterations]

ComputeSlots_OrderedRange(availability, apps, doctor_id, query_date, today, now) ==
    LET lo == IF availability.start_time <= availability.end_time
              THEN availability.start_time ELSE availability.end_time
        hi == IF availability.start_time <= availability.end_time
              THEN availability.end_time ELSE availability.start_time
    IN GenerateSlots(combine(query_date, lo), combine(query_date, hi),
                     BookedTimes(apps, doctor_id, query_date),
                     query_date, today, now)

ComputeSlots(availability, apps, doctor_id, query_date, today, now) ==
    GenerateSlots(combine(query_date, availability.start_time),
                  combine(query_date, availability.end_time),
                  BookedTimes(apps, doctor_id, query_date),
                  query_date, today, now)

\* the first query: no active row for that weekday answers [] at once
GetAvailableSlotsRule(p, doctor_id, query_date) ==
    /\ pc[p] = "idle"
    /\ LET found == ActiveRules(doctor_availability, doctor_id, query_date)
           args == [op |-> "get_available_slots", doctor_id |-> doctor_id,
                    query_date |-> query_date]
       IN IF found = {}
          THEN /\ req' = [req EXCEPT ![p] = args]
               /\ Finish(p, 200, <<>>)
          ELSE /\ \E i \in found :
                     req' = [req EXCEPT ![p] =
                        [op |-> "get_available_slots", doctor_id |-> doctor_id,
                         query_date |-> query_date,
                         availability |-> Shown(doctor_availability[i])]]
               /\ pc' = [pc EXCEPT ![p] = "slots_rule"]
               /\ UNCHANGED resp
    /\ UNCHANGED <<users, doctor_availability, blocked_time, appointments,
                   next_appointment_id, notifications>>

GetAvailableSlotsLoop_DroppingExceptions(p, clock) ==
    /\ pc[p] = "slots_rule"
    /\ req' = [req EXCEPT ![p] =
          [op |-> "get_available_slots", doctor_id |-> req[p].doctor_id,
           query_date |-> req[p].query_date, availability |-> req[p].availability,
           today |-> clock[1], now |-> clock[2]]]
    /\ blocked_time' = { b \in blocked_time : b.doctor_id # req[p].doctor_id }
    /\ Finish(p, 200, <<>>)
    /\ UNCHANGED <<users, doctor_availability, appointments,
                   next_appointment_id, notifications>>

\* the second query and the loop, with the clock reading <<today, now>>
GetAvailableSlotsLoop(p, clock) ==
    /\ pc[p] = "slots_rule"
    /\ LET result == ComputeSlots(req[p].availability, appointments,
                                  req[p].doctor_id, req[p].query_date,
                                  clock[1], clock[2])
       IN /\ req' = [req EXCEPT ![p] =
                [op |-> "get_available_slots", doctor_id |-> req[p].doctor_id,
                 query_date |-> req[p].query_date,
                 availability |-> req[p].availability,
                 today |-> clock[1], now |-> clock[2],
                 iterations |-> result.iterations]]
          /\ IF result.raised
             THEN Finish(p, 500, None)
             ELSE Finish(p, 200, result.slots)
    /\ UNCHANGED <<users, doctor_availability, blocked_time, appointments,
                   next_appointment_id, notifications>>

-----------------------------------------------------------------------------
(* create_appointment *)

CreateAppointmentForbidden(p, u) ==
    /\ pc[p] = "idle"
    /\ (role_name(u) # "paciente" \/ patient_profile(u) = 0)
    /\ req' = [req EXCEPT ![p] = [op |-> "create_appointment", user |-> u]]
    /\ Finish(p, 403, None)
    /\ UNCHANGED <<users, doctor_availability, blocked_time, appointments,
                   next_appointment_id, notifications>>

\* the appointments table holds at most `limit` rows in the model
CreateAppointmentWithin(limit, p, u, doctor_id, appointment_date) ==
    /\ pc[p] = "idle"
    /\ role_name(u) = "paciente" /\ patient_profile(u) # 0
    /\ next_appointment_id <= limit
    /\ LET new_appointment ==
              [id |-> next_appointment_id,
               patient_id |-> patient_profile(u),
               doctor_id |-> doctor_id,
               status_id |-> StatusPendiente,
               appointment_date |-> appointment_date,
               cancellation_reason |-> None]
       IN /\ appointments' = appointments \cup {new_appointment}
          /\ next_appointment_id' = next_appointment_id + 1
          /\ req' = [req EXCEPT ![p] = [op |-> "create_appointment", user |-> u]]
          /\ Finish(p, 201, new_appointment)
    /\ UNCHANGED <<users, doctor_availability, blocked_time, notifications>>

CreateAppointment(p, u, doctor_id, appointment_date) ==
    CreateAppointmentWithin(MaxAppointments, p, u, doctor_id, appointment_date)

-----------------------------------------------------------------------------
(* update_appointment and delete_appointment *)

is_admin_or_medico(u) == role_name(u) \in {"admin", "medico"}

is_patient_owner_AnyPatient(u, a) == patient_profile(u) # 0

\* current_user.patient_profile and patient_id == current_user.patient_profile.id
is_patient_owner(u, a) ==
    patient_profile(u) # 0 /\ a.patient_id = patient_profile(u)

\* setattr(db_appointment, key, value) for every key the request body sets
SetAttrs(a, update_data) ==
    [k \in DOMAIN a |-> IF k \in DOMAIN update_data THEN update_data[k] ELSE a[k]]

\* the foreign keys of the row that the UPDATE must satisfy
ViolatesForeignKey(a) ==
    a.status_id \notin StatusCatalogue \/ a.doctor_id \notin DOMAIN users

\* the 404 and 403 answers of update_appointment: nothing is written
UpdateAppointmentRefused(p, u, appointment_id, update_data) ==
    /\ pc[p] = "idle"
    /\ LET found == { a \in appointments : a.id = appointment_id }
           code == IF found = {} THEN 404
                   ELSE IF \E a \in found :
                              ~is_admin_or_medico(u) /\ ~is_patient_owner(u, a)
                        THEN 403
                   ELSE 0
       IN /\ code # 0
          /\ Finish(p, code, None)
    /\ req' = [req EXCEPT ![p] = [op |-> "update_appointment", user |-> u,
                                  appointment_id |-> appointment_id,
                                  update_data |-> update_data]]
    /\ UNCHANGED <<users, doctor_availability, blocked_time, appointments,
                   next_appointment_id, notifications>>

\* the fields of the body are written as given and committed; a value that
\* breaks a foreign key fails the commit, the session is closed and the
\* caller gets a server error
UpdateAppointment(p, u, appointment_id, update_data) ==
    /\ pc[p] = "idle"
    /\ \E a \in appointments :
          /\ a.id = appointment_id
          /\ is_admin_or_medico(u) \/ is_patient_owner(u, a)
          /\ LET b == SetAttrs(a, update_data)
             IN IF ViolatesForeignKey(b)
                THEN /\ appointments' = appointments
                     /\ Finish(p, 500, None)
                ELSE /\ appointments' = (appointments \ {a}) \cup {b}
                     /\ Finish(p, 200, b)
    /\ req' = [req EXCEPT ![p] = [op |-> "update_appointment", user |-> u,
                                  appointment_id |-> appointment_id,
                                  update_data |-> update_data]]
    /\ UNCHANGED <<users, doctor_availability, blocked_time, next_appointment_id,
                   notifications>>

\* the 404 and 403 answers of delete_appointment: nothing is deleted
DeleteAppointmentRefused(p, u, appointment_id) ==
    /\ pc[p] = "idle"
    /\ LET found == { a \in appointments : a.id = appointment_id }
           code == IF found = {} THEN 404
                   ELSE IF \E a \in found :
                              ~is_admin_or_medico(u) /\ ~is_patient_owner(u, a)
                        THEN 403
                   ELSE 0
       IN /\ code # 0
          /\ Finish(p, code, None)
    /\ req' = [req EXCEPT ![p] = [op |-> "delete_appointment", user |-> u,
                                  appointment_id |-> appointment_id]]
    /\ UNCHANGED <<users, doctor_availability, blocked_time, appointments,
                   next_appointment_id, notifications>>

DeleteAppointment(p, u, appointment_id) ==
    /\ pc[p] = "idle"
    /\ \E a \in appointments :
          /\ a.id = appointment_id
          /\ is_admin_or_medico(u) \/ is_patient_owner(u, a)
          /\ appointments' = appointments \ {a}
    /\ req' = [req EXCEPT ![p] = [op |-> "delete_appointment", user |-> u,
                                  appointment_id |-> appointment_id]]
    /\ Finish(p, 204, None)
    /\ UNCHANGED <<users, doctor_availability, blocked_time, next_appointment_id,
                   notifications>>

-----------------------------------------------------------------------------
(* update_appointment_status *)

UpdateAppointmentStatusForbidden(p, u) ==
    /\ pc[p] = "idle"
    /\ ~is_medico_or_admin(u)
    /\ req' = [req EXCEPT ![p] = [op |-> "update_appointment_status", user |-> u]]
    /\ Finish(p, 403, None)
    /\ UNCHANGED <<users, doctor_availability, blocked_time, appointments,
                   next_appointment_id, notifications>>

NoReason_NoneOnly(cancellation_reason) == cancellation_reason = None

\* `not status_in.cancellation_reason`: None and the empty string are falsy
NoReason(cancellation_reason) == cancellation_reason \in {None, ""}

\* the 404 and 400 answers: nothing is written
UpdateAppointmentStatusRejected(p, u, appointment_id, status_id, cancellation_reason) ==
    /\ pc[p] = "idle"
    /\ is_medico_or_admin(u)
    /\ LET found == { a \in appointments : a.id = appointment_id }
           code == IF found = {} THEN 404
                   ELSE IF status_id \notin StatusCatalogue THEN 400
                   ELSE IF status_id = StatusCancelada /\ NoReason(cancellation_reason)
                        THEN 400
                   ELSE 0
       IN /\ code # 0
          /\ Finish(p, code, None)
    /\ req' = [req EXCEPT ![p] = [op |-> "update_appointment_status", user |-> u,
                                  appointment_id |-> appointment_id,
                                  status_id |-> status_id,
                                  cancellation_reason |-> cancellation_reason]]
    /\ UNCHANGED <<users, doctor_availability, blocked_time, appointments,
                   next_appointment_id, notifications>>

\* 4. the update and 5. the notification of the patient's user
UpdatedAppointment(a, status_id, cancellation_reason) ==
    [a EXCEPT !.status_id = status_id,
              !.cancellation_reason =
                  IF status_id = StatusConfirmada THEN None
                  ELSE IF status_id = StatusCancelada THEN cancellation_reason
                  ELSE @]

Notifies(a, status_id) ==
    status_id \in {StatusConfirmada, StatusCancelada} /\ patient_user_id(a.patient_id) # 0

UpdateAppointmentStatus(p, u, appointment_id, status_id, cancellation_reason) ==
    /\ pc[p] = "idle"
    /\ is_medico_or_admin(u)
    /\ status_id \in StatusCatalogue
    /\ ~(status_id = StatusCancelada /\ NoReason(cancellation_reason))
    /\ \E a \in appointments :
          /\ a.id = appointment_id
          /\ Notifies(a, status_id) => Len(notifications) < MaxNotifications
          /\ LET b == UpdatedAppointment(a, status_id, cancellation_reason)
             IN /\ appointments' = (appointments \ {a}) \cup {b}
                /\ notifications' =
                      IF Notifies(a, status_id)
                      THEN Append(notifications,
                                  [user_id |-> patient_user_id(a.patient_id),
                                   type_id |-> IF status_id = StatusConfirmada
                                               THEN TypeAviso ELSE TypeMensaje])
                      ELSE notifications
                /\ Finish(p, 200, b)
    /\ req' = [req EXCEPT ![p] = [op |-> "update_appointment_status", user |-> u,
                                  appointment_id |-> appointment_id,
                                  status_id |-> status_id,
                                  cancellation_reason |-> cancellation_reason]]
    /\ UNCHANGED <<users, doctor_availability, blocked_time, next_appointment_id>>

-----------------------------------------------------------------------------
(* the admin router: every endpoint depends on get_current_admin_user,     *)
(* which runs, with a session of its own, before the handler body          *)

AdminOps == {"update_user_role", "update_user_status", "delete_user"}

\* get_current_user and get_current_admin_user: 401 when the user of the
\* token is not in the table, 403 when their role is not admin
AdminAuthorise(p, u, op) ==
    /\ pc[p] = "idle"
    /\ req' = [req EXCEPT ![p] = [op |-> op, user |-> u]]
    /\ IF u \notin DOMAIN users
       THEN Finish(p, 401, None)
       ELSE IF role_name(u) # "admin"
       THEN Finish(p, 403, None)
       ELSE /\ pc' = [pc EXCEPT ![p] = "admin_authorised"]
            /\ UNCHANGED resp
    /\ UNCHANGED <<users, doctor_availability, blocked_time, appointments,
                   next_appointment_id, notifications>>

RevokesOwnRole_UnlessMedico(user_id, admin_user_id, role_id) ==
    user_id = admin_user_id /\ role_id \notin {RoleAdmin, RoleMedico}

\* db_user.id == admin_user.id and role_in.role_id != 1
RevokesOwnRole(user_id, admin_user_id, role_id) ==
    user_id = admin_user_id /\ role_id # RoleAdmin

UpdateUserRole(p, user_id, role_id) ==
    /\ pc[p] = "admin_authorised" /\ req[p].op = "update_user_role"
    /\ req' = [req EXCEPT ![p] = [op |-> "update_user_role", user |-> req[p].user,
                                  user_id |-> user_id, role_id |-> role_id]]
    /\ IF user_id \notin DOMAIN users \/ role_id \notin RoleCatalogue
       THEN /\ users' = users
            /\ Finish(p, 404, None)
       ELSE IF RevokesOwnRole(user_id, req[p].user, role_id)
       THEN /\ users' = users
            /\ Finish(p, 400, None)
       ELSE /\ users' = [users EXCEPT ![user_id].role_id = role_id]
            /\ Finish(p, 200, users'[user_id])
    /\ UNCHANGED <<doctor_availability, blocked_time, appointments,
                   next_appointment_id, notifications>>

UpdateUserStatus(p, user_id, is_active) ==
    /\ pc[p] = "admin_authorised" /\ req[p].op = "update_user_status"
    /\ req' = [req EXCEPT ![p] = [op |-> "update_user_status", user |-> req[p].user,
                                  user_id |-> user_id, is_active |-> is_active]]
    /\ IF user_id \notin DOMAIN users
       THEN /\ users' = users
            /\ Finish(p, 404, None)
       ELSE IF user_id = req[p].user /\ ~is_active
       THEN /\ users' = users
            /\ Finish(p, 400, None)
       ELSE /\ users' = [users EXCEPT ![user_id].is_active = is_active]
            /\ Finish(p, 200, users'[user_id])
    /\ UNCHANGED <<doctor_availability, blocked_time, appointments,
                   next_appointment_id, notifications>>

\* rows that reference the user through a foreign key no relationship of
\* User cascades to: the DELETE of the user fails on them
ReferencedUser(user_id) ==
    \/ \E a \in appointments :
          a.doctor_id = user_id /\ a.patient_id # patient_profile(user_id)
    \/ \E i \in 1..Len(notifications) : notifications[i].user_id = user_id

\* db.delete(db_user): the user goes with the rows of the relationships that
\* cascade: the patient profile with its appointments, the weekly rules and
\* the blocked times
DeleteUser(p, user_id) ==
    /\ pc[p] = "admin_authorised" /\ req[p].op = "delete_user"
    /\ req' = [req EXCEPT ![p] = [op |-> "delete_user", user |-> req[p].user,
                                  user_id |-> user_id]]
    /\ IF user_id \notin DOMAIN users \/ user_id = req[p].user \/ ReferencedUser(user_id)
       THEN /\ Finish(p, IF user_id \notin DOMAIN users THEN 404
                         ELSE IF user_id = req[p].user THEN 400
                         ELSE 500, None)
            /\ UNCHANGED <<users, doctor_availability, blocked_time, appointments>>
       ELSE /\ users' = [v \in DOMAIN users \ {user_id} |-> users[v]]
            /\ doctor_availability' =
                  LET Kept(r) == r.doctor_id # user_id
                  IN SelectSeq(doctor_availability, Kept)
            /\ blocked_time' = { b \in blocked_time : b.doctor_id # user_id }
            /\ appointments' =
                  { a \in appointments : a.patient_id # patient_profile(user_id) }
            /\ Finish(p, 204, None)
    /\ UNCHANGED <<next_appointment_id, notifications>>

-----------------------------------------------------------------------------
(* the response has been sent: the worker is free again *)

Return(p) ==
    /\ pc[p] = "done"
    /\ pc' = [pc EXCEPT ![p] = "idle"]
    /\ req' = [req EXCEPT ![p] = NoReq]
    /\ resp' = [resp EXCEPT ![p] = NoResp]
    /\ UNCHANGED <<users, doctor_availability, blocked_time, appointments,
                   next_appointment_id, notifications>>

-----------------------------------------------------------------------------

(* One request at a time: the schedule of doctor 1, the appointments of    *)
(* the patient and the slot queries of anyone.                             *)

Editors == {1, 3}

StatusInputs == StatusCatalogue \cup {5}

Next ==
    \/ \E u \in Editors : SetAvailabilityForbidden(Main, u)
    \/ \E u \in Editors : SetAvailabilityDelete(Main, u)
    \/ \E a \in RuleLists : SetAvailabilityCommit(Main, a)
    \/ SetAvailabilityFail(Main)
    \/ \E u \in Editors : GetMyAvailabilityForbidden(Main, u)
    \/ \E u \in Editors : GetMyAvailability(Main, u)
    \/ \E d \in DoctorIds, q \in Dates : GetAvailableSlotsRule(Main, d, q)
    \/ \E c \in Clock : GetAvailableSlotsLoop(Main, c)
    \/ \E u \in Users : CreateAppointmentForbidden(Main, u)
    \/ \E u \in Users, a \in AppointmentInputs :
          CreateAppointment(Main, u, a[1], a[2])
    \/ \E u \in Users : UpdateAppointmentStatusForbidden(Main, u)
    \/ \E u \in Editors, i \in 1..(MaxAppointments + 1), s \in StatusInputs :
          UpdateAppointmentStatusRejected(Main, u, i, s, None)
    \/ \E u \in Editors, i \in 1..MaxAppointments, s \in StatusInputs :
          UpdateAppointmentStatus(Main, u, i, s, "motivo")
    \/ Return(Main)

Spec == Init /\ [][Next]_vars

-----------------------------------------------------------------------------
(* Requests served at the same time: two workers edit schedules, both as   *)
(* doctor 1 or one of them as user 2, each in its own session.             *)

ScheduleRuleSet ==
    { Rule(1, T(23, 30, 0), T(23, 59, 59), TRUE),
      Rule(0, T(9, 0, 0), T(11, 0, 0), TRUE) }

ScheduleLists == SeqsUpTo(ScheduleRuleSet, MaxRules + 1)

\* <<worker, user>>
Sessions == { <<1, 1>>, <<2, 1>>, <<2, 2>> }

NextConcurrent ==
    \/ \E w \in Sessions : SetAvailabilityDelete(w[1], w[2])
    \/ \E p \in Workers, a \in ScheduleLists : SetAvailabilityCommit(p, a)
    \/ \E p \in Workers : SetAvailabilityFail(p)
    \/ \E p \in Workers : Return(p)

SpecConcurrent == Init /\ [][NextConcurrent]_vars

-----------------------------------------------------------------------------
(* Two doctors edit and read their weekly schedules, one request at a time. *)
(* A request body is any list of rules: the schema takes every integer as  *)
(* day_of_week and every pair of times.                                    *)

WeekRuleSet ==
    { Rule(1, T(23, 30, 0), T(23, 59, 59), TRUE),
      Rule(0, T(9, 0, 0), T(11, 0, 0), TRUE),
      Rule(7, T(9, 0, 0), T(11, 0, 0), TRUE) }

WeekLists == SeqsUpTo(WeekRuleSet, MaxRules + 1)

Doctors == {1, 2}

NextSchedule ==
    \/ \E u \in Doctors : SetAvailabilityDelete(Main, u)
    \/ \E a \in WeekLists : SetAvailabilityCommit(Main, a)
    \/ \E u \in Doctors : GetMyAvailability(Main, u)
    \/ CreateAppointment(Main, 3, 2, combine(0, T(10, 0, 0)))
    \/ Return(Main)

SpecSchedule == Init /\ [][NextSchedule]_vars

-----------------------------------------------------------------------------
(* Slot queries over the stores they read: doctor 1 sets a schedule, which *)
(* may name a weekday twice, the patient books 10:15 on the Monday and the *)
(* doctor confirms it, and the slots of doctor 1 are asked for the Monday, *)
(* for date.max and for the Friday a week before it.  The exceptions table *)
(* is empty or holds the vacation.                                         *)

SlotRuleSet ==
    { Rule(0, T(9, 0, 0), T(11, 0, 0), TRUE),
      Rule(0, T(10, 30, 0), T(11, 30, 0), TRUE),
      Rule(4, T(23, 0, 0), T(23, 59, 59), TRUE),
      Rule(4, T(0, 0, 0), T(23, 59, 59), TRUE),
      Rule(0, T(11, 0, 0), T(9, 0, 0), TRUE) }

SlotRuleLists == SeqsUpTo(SlotRuleSet, MaxRules + 1)

SlotDates == {0, date_max - 7, date_max}

SlotClock == { <<0, T(9, 30, 1)>> }

InitSlots ==
    /\ users = InitialUsers
    /\ doctor_availability = <<>>
    /\ blocked_time \in SUBSET BlockedRows
    /\ appointments = {}
    /\ next_appointment_id = 1
    /\ notifications = <<>>
    /\ pc = [p \in Workers |-> "idle"]
    /\ req = [p \in Workers |-> NoReq]
    /\ resp = [p \in Workers |-> NoResp]

NextSlots ==
    \/ SetAvailabilityDelete(Main, 1)
    \/ \E a \in SlotRuleLists : SetAvailabilityCommit(Main, a)
    \/ CreateAppointment(Main, 3, 1, combine(0, T(10, 15, 0)))
    \/ UpdateAppointmentStatus(Main, 1, 1, StatusConfirmada, None)
    \/ \E q \in SlotDates : GetAvailableSlotsRule(Main, 1, q)
    \/ \E c \in SlotClock : GetAvailableSlotsLoop(Main, c)
    \/ Return(Main)

SpecSlots == InitSlots /\ [][NextSlots]_vars

-----------------------------------------------------------------------------
(* Readers next to a writer: two workers serve the schedule edits of       *)
(* doctor 1 and the reads of that schedule, each request in its session.   *)

ReaderLists == SeqsUpTo(ScheduleRuleSet, MaxRules)

ReaderDates == {0}

ReaderClock == { <<1, T(9, 30, 1)>> }

NextReaders ==
    \/ \E p \in Workers : SetAvailabilityDelete(p, 1)
    \/ \E p \in Workers, a \in ReaderLists : SetAvailabilityCommit(p, a)
    \/ \E p \in Workers : GetMyAvailability(p, 1)
    \/ \E p \in Workers, q \in ReaderDates : GetAvailableSlotsRule(p, 1, q)
    \/ \E p \in Workers, c \in ReaderClock : GetAvailableSlotsLoop(p, c)
    \/ \E p \in Workers : Return(p)

SpecReaders == Init /\ [][NextReaders]_vars

-----------------------------------------------------------------------------
(* The appointments of two patients with doctor 1: bookings, edits by the  *)
(* owner, the other patient, the doctor and the admin, status changes and  *)
(* deletions, one request at a time.                                       *)

AppointmentCallers == {1, 2, 3, 4}

Patients == {3, 4}

\* request bodies of update_appointment: the fields the caller sets
UpdateBodies ==
    { [status_id |-> StatusCancelada],
      [status_id |-> 5],
      [appointment_date |-> combine(0, T(10, 30, 0))] }

BookingDates == { combine(0, T(10, 0, 0)) }

NextAppointments ==
    \/ \E u \in AppointmentCallers : CreateAppointmentForbidden(Main, u)
    \/ \E u \in Patients, d \in BookingDates :
          CreateAppointmentWithin(MaxAppointments + 1, Main, u, 1, d)
    \/ \E u \in AppointmentCallers, i \in 1..(MaxAppointments + 2), b \in UpdateBodies :
          UpdateAppointmentRefused(Main, u, i, b)
    \/ \E u \in AppointmentCallers, i \in 1..(MaxAppointments + 1), b \in UpdateBodies :
          UpdateAppointment(Main, u, i, b)
    \/ \E u \in AppointmentCallers, i \in 1..(MaxAppointments + 2) :
          DeleteAppointmentRefused(Main, u, i)
    \/ \E u \in AppointmentCallers, i \in 1..(MaxAppointments + 1) :
          DeleteAppointment(Main, u, i)
    \/ \E i \in 1..(MaxAppointments + 1), s \in {StatusConfirmada, StatusCancelada} :
          UpdateAppointmentStatus(Main, 1, i, s, "motivo")
    \/ Return(Main)

SpecAppointments == Init /\ [][NextAppointments]_vars

-----------------------------------------------------------------------------
(* Status changes of the appointments of patient 3 by the doctor and the   *)
(* admin, with every kind of request body, one request at a time.          *)

StatusEditors == {1, 2}

NextStatus ==
    \/ \E a \in AppointmentInputs : CreateAppointment(Main, 3, a[1], a[2])
    \/ \E u \in Users : UpdateAppointmentStatusForbidden(Main, u)
    \/ \E u \in StatusEditors, i \in 1..(MaxAppointments + 1), s \in StatusInputs,
          r \in Reasons :
          UpdateAppointmentStatusRejected(Main, u, i, s, r)
    \/ \E u \in StatusEditors, i \in 1..MaxAppointments, s \in StatusInputs,
          r \in Reasons :
          UpdateAppointmentStatus(Main, u, i, s, r)
    \/ Return(Main)

SpecStatus == Init /\ [][NextStatus]_vars

-----------------------------------------------------------------------------
(* Two admin sessions at once: the dependency of a request and its handler *)
(* are two steps, and requests of the other session run between them.      *)

AdminCallers == {1, 2, 3}

\* path parameter user_id: the two staff users and an id nobody has
AdminTargets == {1, 2, 5}

\* body of update_user_role: admin, medico and an id that is not a role
RoleInputs == {RoleAdmin, RoleMedico, 9}

NextAdmin ==
    \/ \E p \in Workers, u \in AdminCallers, op \in AdminOps : AdminAuthorise(p, u, op)
    \/ \E p \in Workers, t \in AdminTargets, r \in RoleInputs : UpdateUserRole(p, t, r)
    \/ \E p \in Workers, t \in AdminTargets, b \in BOOLEAN : UpdateUserStatus(p, t, b)
    \/ \E p \in Workers, t \in AdminTargets : DeleteUser(p, t)
    \/ \E p \in Workers : Return(p)

SpecAdmin == Init /\ [][NextAdmin]_vars

-----------------------------------------------------------------------------
(* What a finished slot query shows.  In Spec one request runs at a time,  *)
(* so the tables of a state whose request is done are the tables the       *)
(* request read.                                                           *)

SlotsDone(p) == pc[p] = "done" /\ req[p].op = "get_available_slots"

\* the query went past the early return: it read a rule and ran the loop
SlotsLooped(p) == SlotsDone(p) /\ "today" \in DOMAIN req[p]

\* the "HH:MM" values of a response, in order
Times(body) == [i \in 1..Len(body) |-> body[i].time]

TimeSet(body) == { body[i].time : i \in 1..Len(body) }

\* the candidate start times of a rule: start, start + 30 min, ... before end
Candidates(rule) ==
    { rule.start_time + k * 1800 : k \in 0..47 } \cap 0..(rule.end_time - 1)

\* the stored rows of a doctor that are active on the weekday of a date
ActiveRowsOn(doctor_id, query_date) ==
    { i \in 1..Len(doctor_availability) :
        LET r == doctor_availability[i]
        IN r.doctor_id = doctor_id /\ r.is_active /\ r.day_of_week = query_date % 7 }

\* the appointments of a doctor on a date with a status in S
AppointmentsOn(doctor_id, query_date, S) ==
    { a \in appointments :
        /\ a.doctor_id = doctor_id
        /\ a.appointment_date \div 86400 = query_date
        /\ a.status_id \in S }

SameHourMinute(t, u) == t \div 60 = u \div 60

HM(t) == <<t \div 3600, (t % 3600) \div 60>>

HMLess(a, b) == a[1] < b[1] \/ (a[1] = b[1] /\ a[2] < b[2])

\* a blocked-time exception of the doctor covers the instant
Blocked(doctor_id, instant) ==
    \E b \in blocked_time :
        /\ b.doctor_id = doctor_id
        /\ b.start_datetime <= instant /\ instant < b.end_datetime

\* C1: a 30-minute candidate time is emitted if and only if (a) it is a
\* candidate of an active rule of the doctor for the weekday of the date,
\* (b) no blocked-time exception of the doctor covers it, (c) no appointment
\* of the doctor on that date that is not cancelled has its hour and minute,
\* and (d) it is not strictly before the current time when the date is today.
C1_SlotIffAvailable ==
    \A p \in Workers :
        SlotsDone(p) =>
            LET doctor_id == req[p].doctor_id
                query_date == req[p].query_date
                grid == UNION { Candidates(doctor_availability[i]) :
                                  i \in { j \in 1..Len(doctor_availability) :
                                            doctor_availability[j].doctor_id = doctor_id } }
            IN \A t \in grid :
                  (HM(t) \in TimeSet(resp[p].body))
                  <=> ( /\ \E i \in ActiveRowsOn(doctor_id, query_date) :
                              t \in Candidates(doctor_availability[i])
                        /\ ~Blocked(doctor_id, query_date * 86400 + t)
                        /\ \A b \in AppointmentsOn(doctor_id, query_date, {1, 2, 3}) :
                              ~SameHourMinute(t, b.appointment_date % 86400)
                        /\ ~(SlotsLooped(p) /\ query_date = req[p].today /\ t < req[p].now) )

\* C4: a doctor with no rule that is active on the weekday of the queried
\* date (no rule at all, or only inactive ones) gets the empty list,
\* whatever the appointments and the clock are.
C4_NoActiveRuleNoSlots ==
    \A p \in Workers :
        (SlotsDone(p) /\ ActiveRowsOn(req[p].doctor_id, req[p].query_date) = {})
            => resp[p].code = 200 /\ resp[p].body = <<>>

\* doctor 1 has only an inactive Monday rule and a pending appointment, a
\* Monday is queried and the answer is empty
C4_Witness ==
    \E p \in Workers :
        /\ SlotsDone(p)
        /\ req[p].doctor_id = 1 /\ req[p].query_date = 0
        /\ \E i \in 1..Len(doctor_availability) :
              /\ doctor_availability[i].doctor_id = 1
              /\ doctor_availability[i].day_of_week = 0
              /\ ~doctor_availability[i].is_active
        /\ AppointmentsOn(1, 0, {1}) # {}
        /\ resp[p].body = <<>>

C6_BookedSlotNotEmitted ==
    \A p \in Workers :
        SlotsDone(p) =>
            \A a \in AppointmentsOn(req[p].doctor_id, req[p].query_date, {1, 2}) :
                HM(a.appointment_date % 86400) \notin TimeSet(resp[p].body)

\* the appointment just created (pending) at 10:00:30 lies on a candidate of
\* the rule 09:00 - 11:00, which gave its other candidates
C6_Witness ==
    \E p \in Workers :
        /\ SlotsLooped(p)
        /\ req[p].doctor_id = 1 /\ req[p].query_date = 0
        /\ req[p].availability.start_time = T(9, 0, 0)
        /\ \E a \in AppointmentsOn(1, 0, {1}) : a.appointment_date % 86400 = T(10, 0, 30)
        /\ Times(resp[p].body) = << <<9, 0>>, <<9, 30>>, <<10, 30>> >>

\* C7: a completed or cancelled appointment removes no slot: when doctor X
\* has on date D, at the hour and minute of T, only completed or cancelled
\* appointments, and T's hour and minute are those of a candidate of the
\* rule used that is not in the past, the slot is emitted.
C7_FreedSlotEmitted ==
    \A p \in Workers :
        SlotsLooped(p) =>
            \A a \in AppointmentsOn(req[p].doctor_id, req[p].query_date, {3, 4}) :
                \A c \in Candidates(req[p].availability) :
                    ( /\ SameHourMinute(c, a.appointment_date % 86400)
                      /\ \A b \in AppointmentsOn(req[p].doctor_id, req[p].query_date, {1, 2}) :
                            ~SameHourMinute(c, b.appointment_date % 86400)
                      /\ ~(req[p].query_date = req[p].today /\ c < req[p].now) )
                    => HM(c) \in TimeSet(resp[p].body)

\* the appointment at 10:00:30 was cancelled and 10:00 is offered again
C7_Witness ==
    \E p \in Workers :
        /\ SlotsLooped(p)
        /\ req[p].doctor_id = 1 /\ req[p].query_date = 0
        /\ \E a \in AppointmentsOn(1, 0, {4}) :
              /\ a.appointment_date % 86400 = T(10, 0, 30)
              /\ a.cancellation_reason = "motivo"
        /\ <<10, 0>> \in TimeSet(resp[p].body)

\* C8: on the current date a candidate strictly before the current time of
\* day is omitted and a free candidate at or after it is kept; on any other
\* date, earlier or later, a free candidate is never omitted.
C8_PastSlotsOnlyToday ==
    \A p \in Workers :
        SlotsLooped(p) =>
            \A c \in Candidates(req[p].availability) :
                LET free == \A b \in AppointmentsOn(req[p].doctor_id, req[p].query_date, {1, 2}) :
                                ~SameHourMinute(c, b.appointment_date % 86400)
                IN IF req[p].query_date = req[p].today /\ c < req[p].now
                   THEN HM(c) \notin TimeSet(resp[p].body)
                   ELSE free => HM(c) \in TimeSet(resp[p].body)

\* queried for today at 09:30:00 exactly, the rule 09:00 - 11:00 gave 09:30
\* and later but not 09:00
C8_Witness ==
    \E p \in Workers :
        /\ SlotsLooped(p)
        /\ req[p].query_date = req[p].today /\ req[p].now = T(9, 30, 0)
        /\ req[p].availability.start_time = T(9, 0, 0)
        /\ Times(resp[p].body) = << <<9, 30>>, <<10, 0>>, <<10, 30>> >>

\* C9: with exactly one active rule [s, e), s < e, for the weekday and a
\* date that is not today, the answer is the ascending sequence of the
\* candidates s, s + 30 min, ... before e, less those whose hour and minute
\* are those of a pending or confirmed appointment of that doctor on that
\* date, each once and with is_available true; 09:00 - 11:00 gives 09:00,
\* 09:30, 10:00, 10:30 with no appointment and 09:00, 09:30, 10:30 with a
\* confirmed appointment at 10:00.
C9_ExactSlotSequence ==
    \A p \in Workers :
        ( /\ SlotsLooped(p)
          /\ Cardinality(ActiveRowsOn(req[p].doctor_id, req[p].query_date)) = 1
          /\ req[p].availability.start_time < req[p].availability.end_time
          /\ req[p].query_date # req[p].today )
        => LET booked == AppointmentsOn(req[p].doctor_id, req[p].query_date, {1, 2})
               expected == { HM(c) : c \in { d \in Candidates(req[p].availability) :
                                \A b \in booked : ~SameHourMinute(d, b.appointment_date % 86400) } }
               body == resp[p].body
           IN /\ TimeSet(body) = expected
              /\ \A i, j \in 1..Len(body) : i < j => HMLess(body[i].time, body[j].time)
              /\ \A i \in 1..Len(body) : body[i].is_available = TRUE
              /\ ( /\ req[p].availability.start_time = T(9, 0, 0)
                   /\ req[p].availability.end_time = T(11, 0, 0) )
                 => /\ booked = {}
                       => Times(body) = << <<9, 0>>, <<9, 30>>, <<10, 0>>, <<10, 30>> >>
                    /\ ( /\ booked # {}
                         /\ \A b \in booked : HM(b.appointment_date % 86400) = <<10, 0>> )
                       => Times(body) = << <<9, 0>>, <<9, 30>>, <<10, 30>> >>

\* doctor 1 has the one rule 09:00 - 11:00 and a confirmed appointment at
\* 10:00:30; queried for a date that is not today the answer is 09:00,
\* 09:30, 10:30
C9_Witness ==
    \E p \in Workers :
        /\ SlotsLooped(p)
        /\ req[p].query_date # req[p].today
        /\ Cardinality(ActiveRowsOn(req[p].doctor_id, req[p].query_date)) = 1
        /\ AppointmentsOn(req[p].doctor_id, req[p].query_date, {2}) # {}
        /\ Times(resp[p].body) = << <<9, 0>>, <<9, 30>>, <<10, 30>> >>

-----------------------------------------------------------------------------
(* The schedule of a doctor as the other requests see it *)

\* the rows of a doctor as a request shows them, in heap order
RowsOf(table, doctor_id) ==
    LET Mine(r) == r.doctor_id = doctor_id
        rows == SelectSeq(table, Mine)
    IN [i \in 1..Len(rows) |->
           [doctor_id |-> rows[i].doctor_id, day_of_week |-> rows[i].day_of_week,
            start_time |-> rows[i].start_time, end_time |-> rows[i].end_time,
            is_active |-> rows[i].is_active]]

\* the rules of a request body as rows of a doctor
Given(list, doctor_id) ==
    [i \in 1..Len(list) |->
        [doctor_id |-> doctor_id, day_of_week |-> list[i].day_of_week,
         start_time |-> list[i].start_time, end_time |-> list[i].end_time,
         is_active |-> list[i].is_active]]

Count(seq, x) == Cardinality({ i \in 1..Len(seq) : seq[i] = x })

SameRows(a, b) ==
    /\ Len(a) = Len(b)
    /\ \A i \in 1..Len(a) : Count(a, a[i]) = Count(b, a[i])

\* worker p's set_availability commits in this step
Commits(p) == pc[p] = "set_deleted" /\ pc'[p] = "done" /\ resp'[p].code = 201

\* worker p's set_availability fails in this step
Fails(p) == pc[p] = "set_deleted" /\ pc'[p] = "done" /\ resp'[p].code # 201

\* C2: once set_availability(rules) of a doctor has committed, what
\* get_my_availability of that doctor returns next is exactly the given
\* rules, each as often as given, in ascending day_of_week; no rule from
\* before the call is left.
C2_SetThenGet ==
    [][ \A p \in Workers :
          Commits(p) =>
             /\ SameRows(RowsOf(doctor_availability', req'[p].user),
                         Given(req'[p].availabilities, req'[p].user))
             /\ \A r \in OrderedByDay(doctor_availability', req'[p].user) :
                   /\ SameRows(r, Given(req'[p].availabilities, req'[p].user))
                   /\ \A i, j \in 1..Len(r) : i < j => r[i].day_of_week <= r[j].day_of_week
      ]_vars

\* C3: set_availability is all or nothing: the schedule of a doctor as other
\* requests see it changes only at the commit of a set_availability of that
\* doctor, and then to exactly the rules of that call; a call that fails
\* leaves every schedule as it was and answers with an error.
C3_AllOrNothing ==
    [][ /\ \A d \in Users :
             RowsOf(doctor_availability', d) # RowsOf(doctor_availability, d)
                => \E p \in Workers :
                      /\ Commits(p)
                      /\ req'[p].user = d
                      /\ SameRows(RowsOf(doctor_availability', d),
                                  Given(req'[p].availabilities, d))
        /\ \A p \in Workers :
             Fails(p) => /\ resp'[p].code = 500
                         /\ \A d \in Users :
                               RowsOf(doctor_availability', d) = RowsOf(doctor_availability, d)
      ]_vars

\* C10: when two set_availability calls of one doctor, with rule lists A and
\* B, overlap and both commit, the doctor's schedule is then exactly A or
\* exactly B.
C10_LastWriterWins ==
    \A p, q \in Workers :
        ( /\ p # q
          /\ pc[p] = "done" /\ req[p].op = "set_availability" /\ resp[p].code = 201
          /\ pc[q] = "done" /\ req[q].op = "set_availability" /\ resp[q].code = 201
          /\ req[p].user = req[q].user )
        => \/ SameRows(RowsOf(doctor_availability, req[p].user),
                       Given(req[p].availabilities, req[p].user))
           \/ SameRows(RowsOf(doctor_availability, req[p].user),
                       Given(req[q].availabilities, req[p].user))

\* C11: in every reachable state each doctor has at most one active rule
\* per day_of_week.
C11_OneActiveRulePerDay ==
    \A i, j \in 1..Len(doctor_availability) :
        ( /\ i # j
          /\ doctor_availability[i].doctor_id = doctor_availability[j].doctor_id
          /\ doctor_availability[i].day_of_week = doctor_availability[j].day_of_week
          /\ doctor_availability[i].is_active
          /\ doctor_availability[j].is_active )
        => FALSE

C13_DayOfWeekInRange ==
    \A i \in 1..Len(doctor_availability) :
        doctor_availability[i].day_of_week \in 0..6

\* C14: get_available_slots has no failure outcome: whatever the doctor, the
\* date and the stores, a slot query ends with a list, which may be empty.
C14_SlotsAlwaysAList ==
    \A p \in Workers :
        SlotsDone(p) => /\ resp[p].code = 200
                        /\ resp[p].body \in Seq([time : (0..23) \X (0..59),
                                                 is_available : BOOLEAN])

\* C15: get_my_availability returns all and only the stored rules whose
\* doctor_id is the caller's id, each once, in non-decreasing day_of_week,
\* whatever the order in which set_availability was given them.
C15_OwnRulesSortedByDay ==
    \A p \in Workers :
        ( pc[p] = "done" /\ req[p].op = "get_my_availability" /\ resp[p].code = 200 )
        => LET body == resp[p].body
           IN /\ SameRows(body, RowsOf(doctor_availability, req[p].user))
              /\ \A i \in 1..Len(body) : body[i].doctor_id = req[p].user
              /\ \A i, j \in 1..Len(body) :
                    i < j => body[i].day_of_week <= body[j].day_of_week

\* the caller's rules are stored Tuesday first and Monday second, another
\* doctor has rules too, and the response lists Monday, then Tuesday
C15_Witness ==
    \E p \in Workers :
        /\ pc[p] = "done" /\ req[p].op = "get_my_availability" /\ resp[p].code = 200
        /\ \E i \in 1..Len(doctor_availability) :
              doctor_availability[i].doctor_id # req[p].user
        /\ LET stored == RowsOf(doctor_availability, req[p].user)
           IN /\ Len(stored) = 2
              /\ stored[1].day_of_week = 1 /\ stored[2].day_of_week = 0
              /\ resp[p].body[1].day_of_week = 0 /\ resp[p].body[2].day_of_week = 1

\* the rows of a table the slot query of a doctor and a date can use
ActiveRowsIn(table, doctor_id, query_date) ==
    { i \in 1..Len(table) :
        /\ table[i].doctor_id = doctor_id
        /\ table[i].is_active
        /\ table[i].day_of_week = query_date % 7 }

\* the days of the week a request body names
DaysOf(list) == { list[i].day_of_week : i \in 1..Len(list) }

\* C16: once set_availability(rules) of a doctor has committed, a date on a
\* weekday that rules does not name has no rule of the doctor to generate
\* slots from, so get_available_slots answers the empty list for it, even
\* when the doctor had a rule for that day before.
C16_OmittedDaysHaveNoSlots ==
    [][ \A p \in Workers :
          Commits(p) =>
             \A q \in Dates :
                (q % 7) \notin DaysOf(req'[p].availabilities)
                   => ActiveRowsIn(doctor_availability', req'[p].user, q) = {}
      ]_vars

\* C17: nothing is cached: a get_my_availability or get_available_slots
\* call is answered from the rules stored when it runs, so a call that
\* starts after a set_availability commit uses the committed rules and
\* never a rule that the commit replaced.
C17_ReadsUseStoredRules ==
    [][ \A p \in Workers :
          /\ ( req[p].op = "none" /\ req'[p].op = "get_my_availability"
                 /\ resp'[p].code = 200 )
             => SameRows(resp'[p].body, RowsOf(doctor_availability, req'[p].user))
          /\ ( req[p].op = "none" /\ req'[p].op = "get_available_slots" )
             => LET usable == ActiveRowsIn(doctor_availability, req'[p].doctor_id,
                                           req'[p].query_date)
                IN IF "availability" \in DOMAIN req'[p]
                   THEN \E i \in usable :
                          req'[p].availability =
                             [doctor_id |-> doctor_availability[i].doctor_id,
                              day_of_week |-> doctor_availability[i].day_of_week,
                              start_time |-> doctor_availability[i].start_time,
                              end_time |-> doctor_availability[i].end_time,
                              is_active |-> doctor_availability[i].is_active]
                   ELSE usable = {} /\ resp'[p].body = <<>>
          /\ ( pc[p] = "slots_rule" /\ pc'[p] = "done" /\ resp'[p].code = 200 )
             => TimeSet(resp'[p].body) \subseteq
                   { HM(c) : c \in Candidates(req[p].availability) }
      ]_vars

\* a worker still holds the 201 of set_availability([Monday rule]); the
\* Monday rule has since been replaced by a later commit, and the other
\* worker's slot query for the Monday, made after that commit, is empty
C17_Witness ==
    \E p, q \in Workers :
        /\ p # q
        /\ pc[q] = "done" /\ req[q].op = "set_availability" /\ resp[q].code = 201
        /\ \E i \in 1..Len(req[q].availabilities) :
              req[q].availabilities[i].day_of_week = 0
        /\ doctor_availability # <<>>
        /\ ActiveRowsIn(doctor_availability, 1, 0) = {}
        /\ SlotsDone(p) /\ req[p].doctor_id = 1 /\ req[p].query_date = 0
        /\ resp[p].code = 200 /\ resp[p].body = <<>>

\* the members of a set of numbers in increasing order
Ascending(S) ==
    [i \in 1..Cardinality(S) |->
        CHOOSE c \in S : Cardinality({ d \in S : d < c }) = i - 1]

\* the candidates of a rule that a slot query of a date keeps, given the
\* appointments that hold a slot and the clock, as "HH:MM" values in order
KeptCandidates(rule, booked, query_date, today, now) ==
    { c \in Candidates(rule) :
        /\ \A b \in booked : ~SameHourMinute(b.appointment_date % 86400, c)
        /\ ~(query_date = today /\ c < now) }

\* C18: the slots of a query are a function of the rule read, the pending
\* and confirmed appointments of the doctor on the date, the date and the
\* clock alone: the blocked-time rows do not enter it, so states that differ
\* only in those rows answer alike, and a kept candidate inside a blocked
\* interval of the doctor is emitted.
C18_BlockedTimeIgnored ==
    \A p \in Workers :
        ( SlotsLooped(p) /\ resp[p].code = 200 )
        => LET kept == KeptCandidates(req[p].availability,
                          AppointmentsOn(req[p].doctor_id, req[p].query_date, {1, 2}),
                          req[p].query_date, req[p].today, req[p].now)
               order == Ascending(kept)
           IN /\ Times(resp[p].body) = [i \in 1..Cardinality(kept) |-> HM(order[i])]
              /\ \A c \in kept :
                    Blocked(req[p].doctor_id, req[p].query_date * 86400 + c)
                       => HM(c) \in TimeSet(resp[p].body)

\* the vacation covers Monday 09:30-10:30 and the Monday query of the
\* 09:00-11:00 rule, asked at 09:30:01, answers 10:00 and 10:30
C18_Witness ==
    \E p \in Workers :
        /\ SlotsLooped(p) /\ resp[p].code = 200
        /\ req[p].doctor_id = 1 /\ req[p].query_date = 0
        /\ Blocked(1, T(10, 0, 0))
        /\ Times(resp[p].body) = << <<10, 0>>, <<10, 30>> >>

C20_OffGridAppointmentBlocksNothing ==
    \A p \in Workers :
        ( SlotsLooped(p) /\ resp[p].code = 200 )
        => LET rule == req[p].availability
               booked == AppointmentsOn(req[p].doctor_id, req[p].query_date, {1, 2})
               offgrid == \A b \in booked : \A c \in Candidates(rule) :
                             HM(b.appointment_date % 86400) # HM(c)
           IN ( booked # {} /\ offgrid )
              => TimeSet(resp[p].body) =
                    { HM(c) : c \in { d \in Candidates(rule) :
                                        ~(req[p].query_date = req[p].today
                                            /\ d < req[p].now) } }

\* a confirmed appointment at 10:15 on the Monday, and the Monday query of
\* the 09:00-11:00 rule answers 10:00 and 10:30
C20_Witness ==
    \E p \in Workers :
        /\ SlotsLooped(p) /\ resp[p].code = 200
        /\ req[p].doctor_id = 1 /\ req[p].query_date = 0
        /\ req[p].availability.start_time = T(9, 0, 0)
        /\ \E a \in appointments :
              /\ a.doctor_id = 1 /\ a.status_id = 2
              /\ a.appointment_date = T(10, 15, 0)
        /\ <<10, 0>> \in TimeSet(resp[p].body)
        /\ <<10, 30>> \in TimeSet(resp[p].body)

\* C21: get_available_slots is read-only: each of its steps leaves the
\* users, the weekly rules, the blocked times, the appointments and the
\* notifications as they were, so slot queries placed anywhere among other
\* requests do not change what those requests leave in the store.
C21_SlotQueryReadOnly ==
    [][ \A p \in Workers :
          ( \/ req[p].op = "none" /\ req'[p].op = "get_available_slots"
            \/ pc[p] = "slots_rule" /\ pc'[p] = "done" )
          => /\ users' = users
             /\ doctor_availability' = doctor_availability
             /\ blocked_time' = blocked_time
             /\ appointments' = appointments
             /\ next_appointment_id' = next_appointment_id
             /\ notifications' = notifications
      ]_vars

\* a slot query has run its loop over non-empty tables
C21_Witness ==
    \E p \in Workers :
        /\ SlotsLooped(p)
        /\ doctor_availability # <<>> /\ blocked_time # {}
        /\ appointments # {} /\ notifications # <<>>

\* C22: a slot query ends, and its loop is bounded: whatever the rule read
\* (any start and end time of day, start_time >= end_time included) the loop
\* body runs at most 48 times and at most 48 slots are emitted; a rule with
\* start_time >= end_time runs it not at all.
C22_LoopBounded ==
    \A p \in Workers :
        /\ SlotsLooped(p)
             => /\ req[p].iterations \in 0..48
                /\ resp[p].code = 200 => Len(resp[p].body) <= req[p].iterations
                /\ req[p].availability.start_time >= req[p].availability.end_time
                      => req[p].iterations = 0
        /\ ( SlotsDone(p) /\ resp[p].code = 200 ) => Len(resp[p].body) <= 48

\* the rule 00:00:00-23:59:59 has run the loop 48 times and emitted 48 slots
C22_Witness ==
    \E p \in Workers :
        /\ SlotsLooped(p) /\ resp[p].code = 200
        /\ req[p].iterations = 48
        /\ Len(resp[p].body) = 48

\* C23: set_availability does not compare start_time with end_time: a rule
\* with start_time >= end_time in the request is accepted (201), returned
\* and stored as given, and a slot query that reads such a rule answers 200
\* with the empty list.
C23_InvertedRuleStoredThenEmpty ==
    \A p \in Workers :
        /\ ( /\ pc[p] = "done" /\ req[p].op = "set_availability"
             /\ "availabilities" \in DOMAIN req[p] )
             => /\ resp[p].code = 201
                /\ \A i \in 1..Len(req[p].availabilities) :
                      LET r == Given(req[p].availabilities, req[p].user)[i]
                      IN r.start_time >= r.end_time
                            => /\ resp[p].body[i] = r
                               /\ \E k \in 1..Len(doctor_availability) :
                                     Shown(doctor_availability[k]) = r
        /\ ( /\ SlotsLooped(p)
             /\ req[p].availability.start_time >= req[p].availability.end_time )
             => /\ resp[p].code = 200
                /\ resp[p].body = <<>>

\* a stored rule 11:00-09:00 has been read by a slot query of its weekday
C23_Witness ==
    \E p \in Workers :
        /\ SlotsLooped(p)
        /\ req[p].availability.start_time > req[p].availability.end_time
        /\ \E k \in 1..Len(doctor_availability) :
              Shown(doctor_availability[k]) = req[p].availability
        /\ weekday(req[p].query_date) = req[p].availability.day_of_week

\* C24: update_appointment_status answers 404 for an appointment id that
\* does not exist, 400 for a status_id outside the status catalogue and 400
\* for status_id 4 with a missing or empty cancellation_reason; each of
\* these answers leaves every appointment as it was and adds no
\* notification.
C24_RejectedStatusUpdateWritesNothing ==
    [][ \A p \in Workers :
          ( /\ pc[p] = "idle" /\ pc'[p] = "done"
            /\ req'[p].op = "update_appointment_status"
            /\ "status_id" \in DOMAIN req'[p] )
          => LET r == req'[p]
                 exists == \E a \in appointments : a.id = r.appointment_id
                 rejected == resp'[p].code \in {400, 404}
             IN /\ ~exists => resp'[p].code = 404
                /\ ( exists /\ r.status_id \notin StatusCatalogue )
                      => resp'[p].code = 400
                /\ ( exists /\ r.status_id = StatusCancelada
                       /\ r.cancellation_reason \in {None, ""} )
                      => resp'[p].code = 400
                /\ rejected => /\ appointments' = appointments
                               /\ notifications' = notifications
      ]_vars

\* a cancellation with an empty reason has been refused while the
\* appointment stays pending
C24_Witness ==
    \E p \in Workers :
        /\ pc[p] = "done" /\ req[p].op = "update_appointment_status"
        /\ "status_id" \in DOMAIN req[p]
        /\ req[p].status_id = StatusCancelada /\ req[p].cancellation_reason = ""
        /\ resp[p].code = 400
        /\ \E a \in appointments :
              a.id = req[p].appointment_id /\ a.status_id = StatusPendiente

\* the rows of a table that belong to other doctors than u, in heap order
RowsOfOthers(table, u) ==
    LET NotMine(r) == r.doctor_id # u
    IN SelectSeq(table, NotMine)

\* C27: every step of set_availability called by user u leaves the rules of
\* every other doctor, the blocked times and the appointments as they were,
\* and every row it adds carries doctor_id = u.
C27_SetAvailabilityOwnRulesOnly ==
    [][ \A p \in Workers :
          ( \/ pc[p] = "idle" /\ pc'[p] = "set_deleted"
            \/ pc[p] = "set_deleted" /\ pc'[p] = "done" )
          => LET u == req'[p].user
             IN /\ RowsOfOthers(doctor_availability', u)
                      = RowsOfOthers(doctor_availability, u)
                /\ \A d \in Users \ {u} :
                      RowsOf(doctor_availability', d) = RowsOf(doctor_availability, d)
                /\ \A k \in 1..Len(doctor_availability') :
                      ( \A i \in 1..Len(doctor_availability) :
                           doctor_availability[i] # doctor_availability'[k] )
                         => doctor_availability'[k].doctor_id = u
                /\ blocked_time' = blocked_time
                /\ appointments' = appointments
                /\ users' = users
      ]_vars

\* doctor 1 has replaced a schedule while doctor 2 has rules, a blocked time
\* and an appointment exist
C27_Witness ==
    \E p \in Workers :
        /\ pc[p] = "done" /\ req[p].op = "set_availability" /\ resp[p].code = 201
        /\ req[p].user = 1 /\ req[p].availabilities # <<>>
        /\ RowsOf(doctor_availability, 2) # <<>>
        /\ RowsOf(doctor_availability, 1) # <<>>
        /\ blocked_time # {} /\ appointments # {}

\* C26: update_appointment and delete_appointment succeed only for a caller
\* with role medico or admin or for the patient who owns the appointment; a
\* patient calling either on another patient's appointment gets 403 and the
\* appointments are left as they were.
C26_OnlyStaffOrOwnerEdits ==
    [][ \A p \in Workers :
          ( /\ pc[p] = "idle" /\ pc'[p] = "done"
            /\ req'[p].op \in {"update_appointment", "delete_appointment"} )
          => LET u == req'[p].user
                 target == { a \in appointments : a.id = req'[p].appointment_id }
                 staff == role_name(u) \in {"medico", "admin"}
                 owner == \E a \in target :
                             patient_profile(u) # 0 /\ a.patient_id = patient_profile(u)
             IN /\ resp'[p].code \in {200, 204}
                      => target # {} /\ (staff \/ owner)
                /\ appointments' # appointments
                      => target # {} /\ (staff \/ owner)
                /\ ( target # {} /\ role_name(u) = "paciente" /\ ~owner )
                      => /\ resp'[p].code = 403
                         /\ appointments' = appointments
      ]_vars

\* patient 4 has been refused on the appointment of patient 3, which is
\* still there
C26_Witness ==
    \E p \in Workers :
        /\ pc[p] = "done"
        /\ req[p].op \in {"update_appointment", "delete_appointment"}
        /\ req[p].user = 4 /\ resp[p].code = 403
        /\ \E a \in appointments :
              a.id = req[p].appointment_id /\ a.patient_id = patient_profile(3)

\* C28: no two appointments of one doctor with status pending or confirmed
\* have the same appointment_date.
C28_NoDoubleBooking ==
    \A a, b \in appointments :
        ( /\ a.id # b.id
          /\ a.doctor_id = b.doctor_id
          /\ a.status_id \in {StatusPendiente, StatusConfirmada}
          /\ b.status_id \in {StatusPendiente, StatusConfirmada} )
        => a.appointment_date # b.appointment_date

\* C29: an appointment with status cancelled has a non-empty
\* cancellation_reason and an appointment with status confirmed has none.
C29_ReasonMatchesStatus ==
    \A a \in appointments :
        /\ a.status_id = StatusCancelada => a.cancellation_reason \notin {None, ""}
        /\ a.status_id = StatusConfirmada => a.cancellation_reason = None

\* C25: an admin cannot take their own privileges away: update_user_role on
\* oneself with a role other than admin, update_user_status on oneself with
\* is_active false and delete_user on oneself are each answered 400 and
\* leave the user table as it was.
C25_AdminKeepsOwnPrivileges ==
    [][ \A p \in Workers :
          ( /\ pc[p] = "admin_authorised" /\ pc'[p] = "done"
            /\ req'[p].user_id = req'[p].user
            /\ req'[p].user \in DOMAIN users
            /\ \/ req'[p].op = "update_user_role" /\ req'[p].role_id # RoleAdmin
               \/ req'[p].op = "update_user_status" /\ req'[p].is_active = FALSE
               \/ req'[p].op = "delete_user" )
          => /\ resp'[p].code \in {400, 404}
             /\ req'[p].op = "update_user_role" /\ req'[p].role_id \in RoleCatalogue
                   => resp'[p].code = 400
             /\ req'[p].op # "update_user_role" => resp'[p].code = 400
             /\ users' = users
      ]_vars

\* each of the three self-directed requests has been refused with 400
C25_Witness ==
    \E p \in Workers :
        /\ pc[p] = "done" /\ req[p].op = "update_user_role"
        /\ "user_id" \in DOMAIN req[p]
        /\ req[p].user_id = req[p].user /\ req[p].role_id = RoleMedico
        /\ resp[p].code = 400
        /\ users[req[p].user].role_id = RoleAdmin

\* C30: at least one user with role admin exists.
C30_SomeAdminRemains ==
    \E u \in DOMAIN users : users[u].role_id = RoleAdmin

====
